---- MODULE Spec2Model ----
(***************************************************************************)
(* Model of lambda_function.py: an AWS Lambda handler that resizes images  *)
(* arriving either through S3 object-created notifications or through an   *)
(* API Gateway request, stores the resized image in S3 and writes one      *)
(* metadata item per image to a DynamoDB table.                            *)
(*                                                                         *)
(* Strings are sequences of tokens; "/" is always a token of its own, so   *)
(* startswith, split('/') and f-string concatenation are sequence          *)
(* operations.  Python floats are IEEE-754 doubles and are modelled        *)
(* exactly: a 53 bit mantissa, held in limbs, plus the binary exponent of  *)
(* its leading bit, with round-half-to-even after every operation.         *)
(***************************************************************************)
EXTENDS Integers, Sequences, FiniteSets, Bags, TLC

VARIABLES store, table, clock, inv, pending, uploadsLeft, rz

vars == <<store, table, clock, inv, pending, uploadsLeft, rz>>

(***************************************************************************)
(* Module-level configuration (lines 12-16).                               *)
(***************************************************************************)
BUCKET_NAME == "bucket"

UPLOAD_PREFIX == <<"uploads", "/">>

RESIZED_PREFIX == <<"resized", "/">>

RESIZE_WIDTH == 800

(***************************************************************************)
(* Bounds of the model.                                                    *)
(***************************************************************************)
MaxDim == 100

MaxRecords == 2

NumInv == 2

NumConc == 2

NumTrig == 1

MaxUploads == 1

(***************************************************************************)
(* String helpers: str.startswith and str.split('/')[-1].                  *)
(***************************************************************************)
\* Variant: the prefix test always succeeds.
StartsWith_Any(s, p) == TRUE

StartsWith(s, p) ==
    /\ Len(s) >= Len(p)
    /\ SubSeq(s, 1, Len(p)) = p

RECURSIVE LastSlash(_, _)
LastSlash(s, j) ==
    IF j = 0 THEN 0
    ELSE IF s[j] = "/" THEN j
    ELSE LastSlash(s, j - 1)

LastComponent(s) == SubSeq(s, LastSlash(s, Len(s)) + 1, Len(s))

(***************************************************************************)
(* IEEE-754 double arithmetic as used by lines 26-27.                      *)
(* A positive double is [m |-> <<1, l1, l2, l3, l4>>, e |-> k]: the 53 bit *)
(* mantissa is the leading 1 followed by four limbs of 13 bits, and the    *)
(* leading bit weighs 2^k.  All intermediate values stay below 2^31 for    *)
(* operands below 2^13.                                                    *)
(***************************************************************************)
LimbBits == 13

RECURSIVE Pow2(_)
Pow2(k) == IF k = 0 THEN 1 ELSE 2 * Pow2(k - 1)

Limb == Pow2(LimbBits)

RECURSIVE BitLen(_)
BitLen(n) == IF n = 0 THEN 0 ELSE 1 + BitLen(n \div 2)

\* Add one unit in the last place to the mantissa m, carrying from limb j.
RECURSIVE IncLimbs(_, _)
IncLimbs(m, j) ==
    IF j = 1 THEN [m EXCEPT ![1] = 2]
    ELSE IF m[j] < Limb - 1 THEN [m EXCEPT ![j] = @ + 1]
    ELSE IncLimbs([m EXCEPT ![j] = 0], j - 1)

\* Round-half-to-even of the mantissa m (leading bit 2^e) given the first
\* discarded bit and whether any later discarded bit is set.
RoundToDouble(m, e, guard, sticky) ==
    LET up  == guard = 1 /\ (sticky \/ m[5] % 2 = 1)
        inc == IncLimbs(m, 5)
    IN  IF ~up THEN [m |-> m, e |-> e]
        ELSE IF inc[1] = 1 THEN [m |-> inc, e |-> e]
        ELSE [m |-> <<1, 0, 0, 0, 0>>, e |-> e + 1]

RECURSIVE ShiftUp(_, _, _)
ShiftUp(n, d, k) == IF 2 * d > n THEN k ELSE ShiftUp(n, 2 * d, k + 1)

RECURSIVE ShiftDown(_, _, _)
ShiftDown(n, d, k) == IF n >= d THEN k ELSE ShiftDown(2 * n, d, k + 1)

\* n / float(d) for positive integers n and d: true division, correctly
\* rounded.  Long division in base 2^13 after scaling the quotient into
\* [1, 2).
FloatDiv(n, d) ==
    LET up   == IF n >= d THEN ShiftUp(n, d, 0) ELSE 0
        down == IF n >= d THEN 0 ELSE ShiftDown(n, d, 0)
        nn   == n * Pow2(down)
        dd   == d * Pow2(up)
        r0   == nn - dd
        l1   == (r0 * Limb) \div dd
        r1   == (r0 * Limb) % dd
        l2   == (r1 * Limb) \div dd
        r2   == (r1 * Limb) % dd
        l3   == (r2 * Limb) \div dd
        r3   == (r2 * Limb) % dd
        l4   == (r3 * Limb) \div dd
        r4   == (r3 * Limb) % dd
    IN  RoundToDouble(<<1, l1, l2, l3, l4>>, up - down,
                      IF 2 * r4 >= dd THEN 1 ELSE 0, 2 * r4 # dd)

\* float(h) * f for a positive integer h (float(h) is exact): the exact
\* product, limb by limb, shifted back to 53 bits and correctly rounded.
FloatMulInt(h, f) ==
    LET c4 == f.m[5] * h
        c3 == f.m[4] * h + c4 \div Limb
        c2 == f.m[3] * h + c3 \div Limb
        c1 == f.m[2] * h + c2 \div Limb
        t  == h + c1 \div Limb
        p1 == c1 % Limb
        p2 == c2 % Limb
        p3 == c3 % Limb
        p4 == c4 % Limb
        s  == BitLen(t) - 1
        lo == Pow2(s)
        hi == Pow2(LimbBits - s)
        dropped == p4 % lo
    IN  RoundToDouble(<<1,
                        (t % lo) * hi + p1 \div lo,
                        (p1 % lo) * hi + p2 \div lo,
                        (p2 % lo) * hi + p3 \div lo,
                        (p3 % lo) * hi + p4 \div lo>>,
                      f.e + s,
                      IF s > 0 /\ 2 * dropped >= lo THEN 1 ELSE 0,
                      s > 0 /\ dropped % Pow2(s - 1) # 0)

\* int(f): truncation toward zero of a positive double below 2^31.
IntOfFloat(f) ==
    IF f.e < 0 THEN 0
    ELSE IF f.e <= LimbBits
    THEN (Limb + f.m[2]) \div Pow2(LimbBits - f.e)
    ELSE IF f.e <= 2 * LimbBits
    THEN ((Limb + f.m[2]) * Limb + f.m[3]) \div Pow2(2 * LimbBits - f.e)
    ELSE ((Limb + f.m[2]) * Limb + f.m[3]) * Pow2(f.e - 2 * LimbBits)
             + f.m[4] \div Pow2(3 * LimbBits - f.e)

\* Lines 26-27: ratio = RESIZE_WIDTH / float(img.width) and
\* height = int(float(img.height) * float(ratio)).
TruncatedProduct(w, h) ==
    IntOfFloat(FloatMulInt(h, FloatDiv(RESIZE_WIDTH, w)))

\* Widths beyond MaxDim for which the computed height can be 0.
WideWidths == {801, 1601, 4000}

\* The heights of all image sizes the model draws from, evaluated once.
HeightTable ==
    [w \in (1..MaxDim) \cup WideWidths |->
        [h \in 1..MaxDim |-> TruncatedProduct(w, h)]]

\* Variant: the height is rounded to the nearest integer.
ResizeHeight_Rounded(w, h) == (2 * RESIZE_WIDTH * h + w) \div (2 * w)

\* The height passed to img.resize on line 28.
ResizeHeight(w, h) ==
    IF w \in DOMAIN HeightTable /\ h \in DOMAIN HeightTable[w]
    THEN HeightTable[w][h]
    ELSE TruncatedProduct(w, h)


(***************************************************************************)
(* Byte strings.  The bytes of a decodable image are identified with the   *)
(* image (format and dimensions); everything else is junk.                 *)
(***************************************************************************)
Img(fmt, w, h) == [kind |-> "img", fmt |-> fmt, w |-> w, h |-> h]

Junk == [kind |-> "junk", fmt |-> "", w |-> 0, h |-> 0]

NoBytes == [kind |-> "none", fmt |-> "", w |-> 0, h |-> 0]

\* len(buffer.getvalue()): the encoded length is a function of the encoded
\* image; here one byte per pixel.
ByteLen(b) == IF b.kind = "img" THEN b.w * b.h ELSE 0

\* Lines 25-34: Image.open, the size computation, img.resize and save.
\* Image.open raises on bytes that are no image, and resize raises
\* ValueError when the requested height is not positive.
Resample(b) ==
    IF b.kind # "img" THEN [ok |-> FALSE, out |-> NoBytes]
    ELSE LET height == ResizeHeight(b.w, b.h)
         IN  IF height < 1
             THEN [ok |-> FALSE, out |-> Img(b.fmt, RESIZE_WIDTH, height)]
             ELSE [ok |-> TRUE, out |-> Img(b.fmt, RESIZE_WIDTH, height)]

(***************************************************************************)
(* The object store (S3) and the metadata table (DynamoDB).                *)
(***************************************************************************)
EmptyStore == [k \in {} |-> NoBytes]

\* s3.put_object: create or replace the object at key k.
PutObject(s, k, body, ctype) ==
    [x \in DOMAIN s \cup {k} |->
        IF x = k THEN [body |-> body, ctype |-> ctype] ELSE s[x]]

\* Variant: put_item adds the item and keeps the items already there.
PutItem_Insert(t, item) == t \cup {item}

\* table.put_item: unconditional upsert on the key attribute image_id.
PutItem(t, item) == {x \in t : x.image_id # item.image_id} \cup {item}

\* Bucket notifications: when the bucket notifies on every key, each object
\* creation queues one storage event for that key.
Notify(p, k) ==
    IF p.on THEN [p EXCEPT !.q = @ (+) SetToBag({k})] ELSE p

(***************************************************************************)
(* Invocation payloads.                                                    *)
(***************************************************************************)
S3Rec(k) == [kind |-> "s3rec", key |-> k]

NoS3Elem == [kind |-> "nos3", key |-> <<>>]

ScalarElem == [kind |-> "scalar", key |-> <<>>]

RecordsAbsent == [kind |-> "absent", items |-> <<>>]

RecordsNull == [kind |-> "null", items |-> <<>>]

RecordsDict == [kind |-> "dict", items |-> <<>>]

RecordsList(items) == [kind |-> "list", items |-> items]

BodyAbsent == [kind |-> "absent", enc |-> "", data |-> NoBytes]

BodyNull == [kind |-> "null", enc |-> "", data |-> NoBytes]

\* A str body: enc "b64" is a string that base64-decodes to data; enc "raw"
\* is a string b64decode rejects and whose latin1 encoding is data; enc
\* "wide" is a string b64decode rejects that latin1 cannot encode.
BodyStr(enc, data) == [kind |-> "str", enc |-> enc, data |-> data]

NoFilename == [has |-> FALSE, name |-> <<>>]

Filename(n) == [has |-> TRUE, name |-> n]

Event(shape, records, body, flag, fn) ==
    [shape |-> shape, Records |-> records, body |-> body,
     isBase64Encoded |-> flag, filename |-> fn]

NoEvent == Event("none", RecordsAbsent, BodyAbsent, FALSE, NoFilename)

(***************************************************************************)
(* Responses (lines 110-113, 118-121, 130, 138-141).                       *)
(***************************************************************************)
NoResp == [statusCode |-> 0, kind |-> "none", url |-> <<>>]

Ack200 == [statusCode |-> 200, kind |-> "ack", url |-> <<>>]

Error500 == [statusCode |-> 500, kind |-> "error", url |-> <<>>]

Ok200(resized_key) ==
    [statusCode |-> 200, kind |-> "ok",
     url |-> <<"s3://", BUCKET_NAME, "/">> \o resized_key]

\* What an exception that leaves lambda_handler would look like.
Uncaught == [statusCode |-> 0, kind |-> "raised", url |-> <<>>]

(***************************************************************************)
(* Per-invocation state: the position in the code and the locals.          *)
(* log lists the store and table calls attempted, failed the steps that    *)
(* raised.                                                                 *)
(***************************************************************************)
IdleLocal ==
    [pc |-> "idle", event |-> NoEvent, path |-> "none", idx |-> 0,
     key |-> <<>>, file_name |-> <<>>, bytes |-> NoBytes, ctype |-> "",
     out |-> NoBytes, resized_key |-> <<>>, size_bytes |-> 0,
     timestamp |-> 0, resp |-> NoResp, log |-> <<>>, failed |-> {},
     caught |-> "none"]

LogEntry(op, k, ok) == [op |-> op, key |-> k, ok |-> ok]

\* The except clause of handle_api_event (lines 114-121).
ApiExcept(l, step) ==
    [l EXCEPT !.pc = "done", !.resp = Error500,
              !.failed = @ \cup {step}, !.caught = "handle_api_event"]

\* Variant: lambda_handler has no except clause, the exception leaves it.
HandlerExcept_Reraise(l, step) ==
    [l EXCEPT !.pc = "done", !.resp = Uncaught, !.failed = @ \cup {step}]

\* The except clause of lambda_handler (lines 134-141).
HandlerExcept(l, step) ==
    [l EXCEPT !.pc = "done", !.resp = Error500,
              !.failed = @ \cup {step}, !.caught = "lambda_handler"]

\* An exception raised at step: the innermost enclosing try block decides.
Raise(l, step) ==
    IF l.path = "api" THEN ApiExcept(l, step) ELSE HandlerExcept(l, step)

\* datetime.utcnow(): time is a counter that advances when it is recorded.
MaxClock == 8

Tick(c) == IF c < MaxClock THEN c + 1 ELSE c


(***************************************************************************)
(* lambda_handler, lines 123-141.                                          *)
(***************************************************************************)
SetLocal(i, l) == inv' = [inv EXCEPT ![i] = l]

\* Variant: the test does not look for 's3' in the first element.
DispatchOf_NoS3Check(e) ==
    IF e.shape # "dict" THEN "api"
    ELSE IF e.Records.kind \in {"absent", "null"} THEN "api"
    ELSE IF e.Records.kind = "dict" THEN "raise"
    ELSE IF e.Records.items = <<>> THEN "api"
    ELSE "s3"

\* Line 127: 'Records' in event and event['Records'] and
\* 's3' in event['Records'][0].  A JSON array as the event has no
\* 'Records' member; a truthy 'Records' that is a mapping has no item 0
\* (KeyError); `in` on a scalar first element raises TypeError.
DispatchOf(e) ==
    IF e.shape # "dict" THEN "api"
    ELSE IF e.Records.kind \in {"absent", "null"} THEN "api"
    ELSE IF e.Records.kind = "dict" THEN "raise"
    ELSE IF e.Records.items = <<>> THEN "api"
    ELSE IF e.Records.items[1].kind = "scalar" THEN "raise"
    ELSE IF e.Records.items[1].kind = "s3rec" THEN "s3"
    ELSE "api"

\* The platform calls lambda_handler(event, context).
Begin(i, e) ==
    SetLocal(i, [IdleLocal EXCEPT !.pc = "dispatch", !.event = e])

Dispatch(i) ==
    /\ inv[i].pc = "dispatch"
    /\ LET l == inv[i]
           d == DispatchOf(l.event)
       IN  SetLocal(i,
               IF d = "raise" THEN HandlerExcept(l, "payload")
               ELSE IF d = "s3"
               THEN [l EXCEPT !.pc = "s3_loop", !.path = "s3", !.idx = 1]
               ELSE [l EXCEPT !.pc = "api_decode", !.path = "api"])
    /\ UNCHANGED <<store, table, clock, pending, uploadsLeft, rz>>

(***************************************************************************)
(* handle_s3_event, lines 52-65.                                           *)
(***************************************************************************)
\* Variant: a key outside the upload prefix ends the loop (break instead of
\* continue).
S3Loop_Break(i) ==
    /\ inv[i].pc = "s3_loop"
    /\ LET l     == inv[i]
           items == l.event.Records.items
       IN  SetLocal(i,
               IF l.idx > Len(items)
               THEN [l EXCEPT !.pc = "done", !.resp = Ack200]
               ELSE IF items[l.idx].kind # "s3rec"
               THEN Raise(l, "payload")
               ELSE IF ~StartsWith(items[l.idx].key, UPLOAD_PREFIX)
               THEN [l EXCEPT !.pc = "done", !.resp = Ack200]
               ELSE [l EXCEPT !.pc = "s3_get",
                              !.key = items[l.idx].key,
                              !.file_name = LastComponent(items[l.idx].key)])
    /\ UNCHANGED <<store, table, clock, pending, uploadsLeft, rz>>

\* Lines 53-59: the loop head, the key of the record, the prefix test and
\* the file name; after the last record lambda_handler returns (line 130).
S3Loop(i) ==
    /\ inv[i].pc = "s3_loop"
    /\ LET l     == inv[i]
           items == l.event.Records.items
       IN  SetLocal(i,
               IF l.idx > Len(items)
               THEN [l EXCEPT !.pc = "done", !.resp = Ack200]
               ELSE IF items[l.idx].kind # "s3rec"
               THEN Raise(l, "payload")
               ELSE IF ~StartsWith(items[l.idx].key, UPLOAD_PREFIX)
               THEN [l EXCEPT !.idx = @ + 1]
               ELSE [l EXCEPT !.pc = "s3_get",
                              !.key = items[l.idx].key,
                              !.file_name = LastComponent(items[l.idx].key)])
    /\ UNCHANGED <<store, table, clock, pending, uploadsLeft, rz>>

\* Variant: a failed fetch is swallowed and the loop goes on with the next
\* record.
S3Get_Isolated(i) ==
    /\ inv[i].pc = "s3_get"
    /\ \E ok \in BOOLEAN :
        LET l    == inv[i]
            good == ok /\ l.key \in DOMAIN store
            l1   == [l EXCEPT !.log = Append(@, LogEntry("get", l.key, good))]
        IN  SetLocal(i,
                IF good
                THEN [l1 EXCEPT !.pc = "decode",
                                !.bytes = store[l.key].body,
                                !.ctype = store[l.key].ctype]
                ELSE [l1 EXCEPT !.pc = "s3_loop", !.idx = @ + 1])
    /\ UNCHANGED <<store, table, clock, pending, uploadsLeft, rz>>

\* Lines 60-62: s3.get_object; it raises when the key is absent or the
\* store fails.
S3Get(i) ==
    /\ inv[i].pc = "s3_get"
    /\ \E ok \in BOOLEAN :
        LET l    == inv[i]
            good == ok /\ l.key \in DOMAIN store
            l1   == [l EXCEPT !.log = Append(@, LogEntry("get", l.key, good))]
        IN  SetLocal(i,
                IF good
                THEN [l1 EXCEPT !.pc = "decode",
                                !.bytes = store[l.key].body,
                                !.ctype = store[l.key].ctype]
                ELSE Raise(l1, "get"))
    /\ UNCHANGED <<store, table, clock, pending, uploadsLeft, rz>>

(***************************************************************************)
(* process_image, lines 20-39.                                             *)
(***************************************************************************)
\* Lines 22-34: decode, resize and encode.
Decode(i) ==
    /\ inv[i].pc = "decode"
    /\ LET l == inv[i]
           r == Resample(l.bytes)
       IN  SetLocal(i,
               IF r.ok THEN [l EXCEPT !.pc = "put_resized", !.out = r.out]
               ELSE Raise(l, "image"))
    /\ UNCHANGED <<store, table, clock, pending, uploadsLeft, rz>>

\* Variant: a failed upload of the resized image is swallowed.
PutResized_Lost(i) ==
    /\ inv[i].pc = "put_resized"
    /\ \E ok \in BOOLEAN :
        LET l  == inv[i]
            rk == RESIZED_PREFIX \o l.file_name
            l1 == [l EXCEPT !.log = Append(@, LogEntry("put", rk, ok)),
                            !.pc = "save_meta", !.resized_key = rk,
                            !.size_bytes = ByteLen(l.out)]
        IN  /\ SetLocal(i, l1)
            /\ IF ok
               THEN /\ store' = PutObject(store, rk, l.out, l.ctype)
                    /\ pending' = Notify(pending, rk)
               ELSE UNCHANGED <<store, pending>>
    /\ UNCHANGED <<table, clock, uploadsLeft, rz>>

\* Lines 36-39: upload the resized image and return its key and length.
PutResized(i) ==
    /\ inv[i].pc = "put_resized"
    /\ \E ok \in BOOLEAN :
        LET l  == inv[i]
            rk == RESIZED_PREFIX \o l.file_name
            l1 == [l EXCEPT !.log = Append(@, LogEntry("put", rk, ok))]
        IN  IF ok
            THEN /\ store' = PutObject(store, rk, l.out, l.ctype)
                 /\ pending' = Notify(pending, rk)
                 /\ SetLocal(i, [l1 EXCEPT !.pc = "save_meta",
                                           !.resized_key = rk,
                                           !.size_bytes = ByteLen(l.out)])
            ELSE /\ SetLocal(i, Raise(l1, "put"))
                 /\ UNCHANGED <<store, pending>>
    /\ UNCHANGED <<table, clock, uploadsLeft, rz>>

(***************************************************************************)
(* save_metadata, lines 41-50, as called on lines 65 and 106, and the      *)
(* return that follows it (line 110, or the next loop iteration).          *)
(***************************************************************************)
Item(image_id, original_key, resized_key, size_bytes, timestamp) ==
    [image_id |-> image_id, original_key |-> original_key,
     resized_key |-> resized_key, size_bytes |-> size_bytes,
     timestamp |-> timestamp]

SaveMetadata(i) ==
    /\ inv[i].pc = "save_meta"
    /\ \E ok \in BOOLEAN :
        LET l    == inv[i]
            item == Item(l.file_name, l.key, l.resized_key, l.size_bytes,
                         clock)
            l1   == [l EXCEPT !.log = Append(@, LogEntry("meta", l.file_name, ok)),
                              !.timestamp = clock]
        IN  IF ok
            THEN /\ table' = PutItem(table, item)
                 /\ SetLocal(i,
                        IF l.path = "s3"
                        THEN [l1 EXCEPT !.pc = "s3_loop", !.idx = @ + 1]
                        ELSE [l1 EXCEPT !.pc = "done",
                                        !.resp = Ok200(l.resized_key)])
            ELSE /\ SetLocal(i, Raise(l1, "meta"))
                 /\ UNCHANGED table
    /\ clock' = Tick(clock)
    /\ UNCHANGED <<store, pending, uploadsLeft, rz>>

(***************************************************************************)
(* handle_api_event, lines 67-121.                                         *)
(***************************************************************************)
\* Lines 71-91: the bytes of the body.  ok is FALSE when an exception
\* leaves the block; b64failed tells that b64decode raised.
DecodeBody(e) ==
    LET body == e.body
    IN  IF e.isBase64Encoded
        THEN IF body.kind = "absent"
             THEN [ok |-> TRUE, b64failed |-> FALSE, bytes |-> Junk]
             ELSE IF body.kind = "str" /\ body.enc = "b64"
             THEN [ok |-> TRUE, b64failed |-> FALSE, bytes |-> body.data]
             ELSE [ok |-> FALSE, b64failed |-> TRUE, bytes |-> NoBytes]
        ELSE IF body.kind = "absent"
             THEN [ok |-> TRUE, b64failed |-> FALSE, bytes |-> Junk]
             ELSE IF body.kind = "null"
             THEN [ok |-> FALSE, b64failed |-> FALSE, bytes |-> NoBytes]
             ELSE IF body.enc = "b64"
             THEN [ok |-> TRUE, b64failed |-> FALSE, bytes |-> body.data]
             ELSE IF body.enc = "raw"
             THEN [ok |-> TRUE, b64failed |-> TRUE, bytes |-> body.data]
             ELSE [ok |-> FALSE, b64failed |-> TRUE, bytes |-> NoBytes]

\* Line 95: the default file name.
SynthName(t) == <<"image_", ToString(t), ".jpg">>

\* Lines 69-98: everything before the first store call.  event.get raises
\* on an event that is no mapping.
ApiDecode(i) ==
    /\ inv[i].pc = "api_decode"
    /\ LET l  == inv[i]
           e  == l.event
           d  == DecodeBody(e)
           fn == IF e.filename.has THEN e.filename.name ELSE SynthName(clock)
           l1 == [l EXCEPT !.failed =
                      IF d.b64failed THEN @ \cup {"b64"} ELSE @]
       IN  SetLocal(i,
               IF e.shape # "dict" THEN Raise(l, "payload")
               ELSE IF ~d.ok
               THEN Raise(l1, IF e.body.kind = "null" /\ ~e.isBase64Encoded
                              THEN "payload"
                              ELSE IF e.isBase64Encoded THEN "b64"
                              ELSE "latin1")
               ELSE [l1 EXCEPT !.pc = "api_put", !.bytes = d.bytes,
                               !.ctype = "image/jpeg", !.file_name = fn,
                               !.key = UPLOAD_PREFIX \o fn])
    /\ UNCHANGED <<store, table, clock, pending, uploadsLeft, rz>>

\* Variant: the original is not uploaded.
ApiPut_Skipped(i) ==
    /\ inv[i].pc = "api_put"
    /\ SetLocal(i, [inv[i] EXCEPT !.pc = "decode"])
    /\ UNCHANGED <<store, table, clock, pending, uploadsLeft, rz>>

\* Line 101: upload the original.
ApiPut(i) ==
    /\ inv[i].pc = "api_put"
    /\ \E ok \in BOOLEAN :
        LET l  == inv[i]
            l1 == [l EXCEPT !.log = Append(@, LogEntry("put", l.key, ok))]
        IN  IF ok
            THEN /\ store' = PutObject(store, l.key, l.bytes, "image/jpeg")
                 /\ pending' = Notify(pending, l.key)
                 /\ SetLocal(i, [l1 EXCEPT !.pc = "decode"])
            ELSE /\ SetLocal(i, Raise(l1, "put"))
                 /\ UNCHANGED <<store, pending>>
    /\ UNCHANGED <<table, clock, uploadsLeft, rz>>

\* One step of invocation i.
Step(i) ==
    \/ Dispatch(i)
    \/ S3Loop(i)
    \/ S3Get(i)
    \/ Decode(i)
    \/ PutResized(i)
    \/ SaveMetadata(i)
    \/ ApiDecode(i)
    \/ ApiPut(i)


(***************************************************************************)
(* The inputs the model draws from.                                        *)
(***************************************************************************)
ImgA == Img("PNG", 4, 3)

ImgB == Img("JPEG", 2, 1)

ImgThin == Img("PNG", 1601, 1)

FileA == <<"a.png">>

KeyA == UPLOAD_PREFIX \o FileA

KeyNested == UPLOAD_PREFIX \o <<"d", "/", "a.png">>

KeyJunk == UPLOAD_PREFIX \o <<"j.txt">>

KeyArchive == <<"archive", "/", "old.png">>

KeyResized == RESIZED_PREFIX \o FileA

RecordKeys == {KeyA, KeyNested, KeyJunk, KeyArchive}

\* The objects in the bucket before the first invocation.
InitStore ==
    PutObject(PutObject(PutObject(PutObject(EmptyStore,
        KeyA, ImgA, "image/png"),
        KeyNested, ImgB, "image/jpeg"),
        KeyJunk, Junk, "text/plain"),
        KeyArchive, ImgA, "image/png")

Elems == {S3Rec(k) : k \in RecordKeys} \cup {NoS3Elem, ScalarElem}

SeqsUpTo(S, n) == UNION {[1..m -> S] : m \in 0..n}

RecordsVals ==
    {RecordsAbsent, RecordsNull, RecordsDict}
        \cup {RecordsList(r) : r \in SeqsUpTo(Elems, MaxRecords)}

Bodies ==
    {BodyAbsent, BodyNull, BodyStr("wide", NoBytes),
     BodyStr("b64", ImgA), BodyStr("b64", ImgB), BodyStr("b64", Junk),
     BodyStr("b64", ImgThin), BodyStr("raw", ImgA), BodyStr("raw", Junk)}

Payloads ==
    {Event("dict", r, BodyAbsent, FALSE, NoFilename) : r \in RecordsVals}
        \cup {Event("dict", RecordsAbsent, b, f, n) :
                 b \in Bodies, f \in BOOLEAN,
                 n \in {NoFilename, Filename(FileA)}}
        \cup {Event("list", RecordsAbsent, BodyAbsent, FALSE, NoFilename)}

ConcPayloads ==
    {Event("dict", RecordsList(<<S3Rec(KeyA)>>), BodyAbsent, FALSE, NoFilename),
     Event("dict", RecordsAbsent, BodyStr("b64", ImgA), TRUE, Filename(FileA)),
     Event("dict", RecordsAbsent, BodyStr("b64", ImgB), TRUE, Filename(FileA))}

SeqPayloads ==
    ConcPayloads \cup
    {Event("dict", RecordsAbsent, BodyStr("b64", ImgB), TRUE, NoFilename),
     Event("dict", RecordsAbsent, BodyStr("b64", Junk), TRUE, Filename(FileA)),
     Event("dict", RecordsList(<<S3Rec(KeyNested)>>), BodyAbsent, FALSE,
           NoFilename)}

NoNotify == [on |-> FALSE, q |-> EmptyBag]

RzOff == [pc |-> "off", w |-> 0, h |-> 0, ok |-> FALSE, out |-> NoBytes]

(***************************************************************************)
(* Spec: one invocation with an arbitrary payload.                         *)
(***************************************************************************)
Invoke(i, e) ==
    /\ inv[i].pc = "idle"
    /\ \A j \in DOMAIN inv : j < i => inv[j].pc # "idle"
    /\ Begin(i, e)
    /\ UNCHANGED <<store, table, clock, pending, uploadsLeft, rz>>

Init ==
    /\ store = InitStore
    /\ table = {}
    /\ clock = 0
    /\ inv = [i \in 1..1 |-> IdleLocal]
    /\ pending = NoNotify
    /\ uploadsLeft = 0
    /\ rz = RzOff

Next ==
    \/ \E i \in DOMAIN inv, e \in Payloads : Invoke(i, e)
    \/ \E i \in DOMAIN inv : Step(i)

Spec == Init /\ [][Next]_vars

(***************************************************************************)
(* SpecSeq: invocations one after the other.  Of the invocation before the *)
(* running one only the path, the file name, the response and the size and *)
(* time it recorded are remembered; earlier ones are forgotten.            *)
(***************************************************************************)
Past(l) ==
    [IdleLocal EXCEPT !.pc = "past", !.path = l.path,
                      !.file_name = l.file_name, !.resp = l.resp,
                      !.size_bytes = l.size_bytes,
                      !.timestamp = l.timestamp]

Forgotten == [IdleLocal EXCEPT !.pc = "past"]

InvokeAfter(i, e) ==
    /\ inv[i].pc = "idle"
    /\ \A j \in DOMAIN inv : j < i => inv[j].pc \in {"done", "past"}
    /\ inv' = [j \in DOMAIN inv |->
                  IF j = i THEN [IdleLocal EXCEPT !.pc = "dispatch",
                                                  !.event = e]
                  ELSE IF j = i - 1 THEN Past(inv[j])
                  ELSE IF j < i THEN Forgotten
                  ELSE inv[j]]
    /\ UNCHANGED <<store, table, clock, pending, uploadsLeft, rz>>

InitSeq ==
    /\ store = InitStore
    /\ table = {}
    /\ clock = 0
    /\ inv = [i \in 1..NumInv |-> IdleLocal]
    /\ pending = NoNotify
    /\ uploadsLeft = 0
    /\ rz = RzOff

NextSeq ==
    \/ \E i \in DOMAIN inv, e \in SeqPayloads : InvokeAfter(i, e)
    \/ \E i \in DOMAIN inv : Step(i)

SpecSeq == InitSeq /\ [][NextSeq]_vars

(***************************************************************************)
(* SpecConc: invocations that overlap in time.                             *)
(***************************************************************************)
InitConc ==
    /\ store = InitStore
    /\ table = {}
    /\ clock = 0
    /\ inv = [i \in 1..NumConc |-> IdleLocal]
    /\ pending = NoNotify
    /\ uploadsLeft = 0
    /\ rz = RzOff

NextConc ==
    \/ \E i \in DOMAIN inv, e \in ConcPayloads : Invoke(i, e)
    \/ \E i \in DOMAIN inv : Step(i)

SpecConc == InitConc /\ [][NextConc]_vars

(***************************************************************************)
(* SpecTrig: the bucket notifies the function of every object created,     *)
(* whatever its key.  Clients upload objects and call the API a bounded    *)
(* number of times; the platform delivers every queued notification and    *)
(* runs every invocation to its end.                                       *)
(***************************************************************************)
Free(i) == inv[i].pc \in {"idle", "done"}

\* A new invocation runs in the first execution environment that is free.
FirstFree(i) == Free(i) /\ \A j \in DOMAIN inv : j < i => ~Free(j)

Upload(k, b) ==
    /\ uploadsLeft > 0
    /\ uploadsLeft' = uploadsLeft - 1
    /\ store' = PutObject(store, k, b, "image/png")
    /\ pending' = Notify(pending, k)
    /\ UNCHANGED <<table, clock, inv, rz>>

ApiRequest(i, e) ==
    /\ uploadsLeft > 0
    /\ FirstFree(i)
    /\ uploadsLeft' = uploadsLeft - 1
    /\ Begin(i, e)
    /\ UNCHANGED <<store, table, clock, pending, rz>>

Deliver(i) ==
    /\ FirstFree(i)
    /\ \E k \in BagToSet(pending.q) :
        /\ pending' = [pending EXCEPT !.q = @ (-) SetToBag({k})]
        /\ Begin(i, Event("dict", RecordsList(<<S3Rec(k)>>), BodyAbsent,
                          FALSE, NoFilename))
    /\ UNCHANGED <<store, table, clock, uploadsLeft, rz>>

InitTrig ==
    /\ store = EmptyStore
    /\ table = {}
    /\ clock = 0
    /\ inv = [i \in 1..NumTrig |-> IdleLocal]
    /\ pending = [NoNotify EXCEPT !.on = TRUE]
    /\ uploadsLeft = MaxUploads
    /\ rz = RzOff

NextTrig ==
    \/ \E k \in {KeyA, KeyNested} : Upload(k, ImgA)
    \/ \E i \in DOMAIN inv :
          ApiRequest(i, Event("dict", RecordsAbsent, BodyStr("b64", ImgA),
                              TRUE, Filename(FileA)))
    \/ \E i \in DOMAIN inv : Deliver(i)
    \/ \E i \in DOMAIN inv : Step(i)

SpecTrig ==
    /\ InitTrig
    /\ [][NextTrig]_vars
    /\ WF_vars(\E i \in 1..NumTrig : Step(i))
    /\ WF_vars(\E i \in 1..NumTrig : Deliver(i))

(***************************************************************************)
(* SpecResize: the size computation of process_image on every image of a   *)
(* bounded range of dimensions.                                            *)
(***************************************************************************)
ResizeImage ==
    /\ rz.pc = "start"
    /\ LET r == Resample(Img("PNG", rz.w, rz.h))
       IN  rz' = [rz EXCEPT !.pc = "done", !.ok = r.ok, !.out = r.out]
    /\ UNCHANGED <<store, table, clock, inv, pending, uploadsLeft>>

InitResize ==
    /\ store = EmptyStore
    /\ table = {}
    /\ clock = 0
    /\ inv = [i \in {} |-> IdleLocal]
    /\ pending = NoNotify
    /\ uploadsLeft = 0
    /\ rz \in {[RzOff EXCEPT !.pc = "start", !.w = w, !.h = h] :
                  w \in (1..MaxDim) \cup WideWidths, h \in 1..MaxDim}

NextResize == ResizeImage

SpecResize == InitResize /\ [][NextResize]_vars


(***************************************************************************)
(* Properties.                                                             *)
(***************************************************************************)
\* s begins with p, stated without reference to the handler's own test.
UnderPrefix(s, p) == \E n \in 0..Len(s) : s = p \o SubSeq(s, n + 1, Len(s))

Running(l) == l.pc \notin {"idle", "done", "past"}

Ids == DOMAIN inv

\* C1 (as claimed): lambda_handler always returns a response, and whenever
\* any step of the invocation failed (payload access, base64 decode, fetch,
\* upload, image decode/resize, metadata write) the response is status 500
\* with an 'error' body, never status 200.
C1_EveryFailureGives500 ==
    \A i \in Ids :
        inv[i].pc = "done" =>
            /\ inv[i].resp.kind \in {"ack", "ok", "error"}
            /\ inv[i].failed # {} => inv[i].resp = Error500

\* A failure the handler does not recover from: anything but a base64
\* decode failure of a str body when isBase64Encoded is not set.
Unrecovered(l) ==
    \/ l.failed \ {"b64"} # {}
    \/ "b64" \in l.failed /\ l.event.isBase64Encoded

\* C1 (amended): lambda_handler always returns a response; every failure
\* other than a base64 decode failure on the unflagged branch (which falls
\* back to latin1 encoding the body) ends in status 500 with an 'error'
\* body, and a response that is not 500 is a 200.
C1_UnrecoveredFailureGives500 ==
    \A i \in Ids :
        inv[i].pc = "done" =>
            /\ inv[i].resp.kind \in {"ack", "ok", "error"}
            /\ Unrecovered(inv[i]) => inv[i].resp = Error500
            /\ inv[i].resp.kind = "error" <=> inv[i].resp.statusCode = 500
            /\ inv[i].resp.kind \in {"ack", "ok"} <=> inv[i].resp.statusCode = 200
            /\ inv[i].resp.statusCode = 500 => inv[i].failed # {}

C1_Witness ==
    \E i \in Ids :
        /\ inv[i].pc = "done"
        /\ inv[i].path = "s3"
        /\ "meta" \in inv[i].failed
        /\ inv[i].resp = Error500
        /\ inv[i].caught = "lambda_handler"

\* Every record of the event is a storage record whose key is outside the
\* upload prefix.
AllSkipped(e) ==
    /\ e.shape = "dict"
    /\ e.Records.kind = "list"
    /\ e.Records.items # <<>>
    /\ \A n \in 1..Len(e.Records.items) :
          /\ e.Records.items[n].kind = "s3rec"
          /\ ~UnderPrefix(e.Records.items[n].key, UPLOAD_PREFIX)

\* The invocation stands at a record whose key is outside the upload prefix.
AtSkippedRecord(l) ==
    /\ l.pc = "s3_loop"
    /\ l.idx <= Len(l.event.Records.items)
    /\ l.event.Records.items[l.idx].kind = "s3rec"
    /\ ~UnderPrefix(l.event.Records.items[l.idx].key, UPLOAD_PREFIX)

\* C2: a record whose key does not start with UPLOAD_PREFIX is skipped: the
\* step that handles it makes no store or table call and moves to the next
\* record; an invocation whose records are all skipped never changes the
\* store or the table and returns status 200 with the acknowledgement.
C2_NonUploadKeySkipped ==
    /\ [](\A i \in Ids :
            /\ AllSkipped(inv[i].event) => inv[i].log = <<>>
            /\ AllSkipped(inv[i].event) /\ inv[i].pc = "done"
                  => inv[i].resp = Ack200 /\ inv[i].failed = {})
    /\ [][\A i \in Ids :
            /\ AtSkippedRecord(inv[i]) /\ inv'[i] # inv[i]
                  => /\ inv'[i] = [inv[i] EXCEPT !.idx = @ + 1]
                     /\ store' = store
                     /\ table' = table
            /\ AllSkipped(inv[i].event) /\ Running(inv[i])
                  => store' = store /\ table' = table]_vars

C2_Witness ==
    \E i \in Ids :
        /\ inv[i].pc = "done"
        /\ AllSkipped(inv[i].event)
        /\ Len(inv[i].event.Records.items) = MaxRecords
        /\ inv[i].resp = Ack200
        /\ store = InitStore
        /\ table = {}

\* The keys of the records that are storage records under the upload
\* prefix, in the order of the list.
UploadKeys(items) ==
    LET sel == SelectSeq(items,
                 LAMBDA r : r.kind = "s3rec" /\ UnderPrefix(r.key, UPLOAD_PREFIX))
    IN  [n \in 1..Len(sel) |-> sel[n].key]

\* The keys fetched, in the order of the fetches.
Fetched(log) ==
    LET sel == SelectSeq(log, LAMBDA x : x.op = "get")
    IN  [n \in 1..Len(sel) |-> sel[n].key]

IsPrefixOf(a, b) == Len(a) <= Len(b) /\ a = SubSeq(b, 1, Len(a))

\* C3: in a storage-event invocation the calls come record by record in
\* list order as fetch, store write, metadata write; nothing follows the
\* first failing call or record, the response is then 500, and 200 is
\* returned only when every upload-prefix record was fetched, stored and
\* recorded.
C3_BatchInOrderAbortsAtFirstFailure ==
    \A i \in Ids :
        LET l == inv[i]
        IN  l.path = "s3" /\ l.pc # "past" =>
              /\ \A n \in 1..Len(l.log) :
                    /\ l.log[n].op = <<"get", "put", "meta">>[((n - 1) % 3) + 1]
                    /\ n < Len(l.log) => l.log[n].ok
                    /\ ~l.log[n].ok => l.pc = "done" /\ l.resp = Error500
              /\ IsPrefixOf(Fetched(l.log), UploadKeys(l.event.Records.items))
              /\ l.failed # {} => l.pc = "done" /\ l.resp = Error500
              /\ l.pc = "done" /\ l.resp.statusCode = 200 =>
                    /\ l.resp = Ack200
                    /\ Fetched(l.log) = UploadKeys(l.event.Records.items)
                    /\ Len(l.log) = 3 * Len(Fetched(l.log))
                    /\ \A n \in 1..Len(l.log) : l.log[n].ok

C3_Witness ==
    \E i \in Ids :
        /\ inv[i].pc = "done"
        /\ inv[i].path = "s3"
        /\ Len(UploadKeys(inv[i].event.Records.items)) = MaxRecords
        /\ Len(inv[i].log) = 3
        /\ ~inv[i].log[3].ok
        /\ inv[i].resp = Error500

\* C4: an API invocation returns 200 only after the original was stored at
\* UPLOAD_PREFIX+file_name, the resized image at RESIZED_PREFIX+file_name
\* and the metadata item for file_name written, in this order, and
\* resized_url is s3://<BUCKET_NAME>/ followed by that resized key.
C4_ApiSuccessAfterThreeWrites ==
    \A i \in Ids :
        LET l == inv[i]
            f == l.file_name
        IN  l.pc = "done" /\ l.path = "api" /\ l.resp.statusCode = 200 =>
              /\ l.log = << LogEntry("put", UPLOAD_PREFIX \o f, TRUE),
                            LogEntry("put", RESIZED_PREFIX \o f, TRUE),
                            LogEntry("meta", f, TRUE) >>
              /\ l.resp.url = <<"s3://", BUCKET_NAME, "/">> \o RESIZED_PREFIX \o f
              /\ l.resp.kind = "ok"
              /\ UPLOAD_PREFIX \o f \in DOMAIN store
              /\ store[UPLOAD_PREFIX \o f].body = l.bytes
              /\ RESIZED_PREFIX \o f \in DOMAIN store
              /\ \E x \in table : x.image_id = f

C4_Witness ==
    \E i \in Ids :
        /\ inv[i].pc = "done"
        /\ inv[i].path = "api"
        /\ inv[i].resp.statusCode = 200
        /\ ~inv[i].event.filename.has
        /\ Len(inv[i].log) = 3

\* C5: every metadata item has original_key = UPLOAD_PREFIX + image_id and
\* resized_key = RESIZED_PREFIX + image_id.
C5_ObjectNaming ==
    \A x \in table :
        /\ x.original_key = UPLOAD_PREFIX \o x.image_id
        /\ x.resized_key = RESIZED_PREFIX \o x.image_id

\* C6 (as claimed): every image of width w and height h is resized to
\* width 800 and a height that is a nearest integer to h * 800 / w.
C6_HeightIsRounded ==
    rz.pc = "done" =>
        /\ rz.ok
        /\ rz.out.w = RESIZE_WIDTH
        /\ 2 * rz.out.h * rz.w - 2 * RESIZE_WIDTH * rz.h <= rz.w
        /\ 2 * RESIZE_WIDTH * rz.h - 2 * rz.out.h * rz.w <= rz.w

\* C6 (amended): the requested size is width 800 and the height is
\* h * 800 / w rounded down, or one less than that when w divides h * 800
\* and the double product falls short of the integer; a resized image is
\* produced exactly when that height is at least 1.
C6_HeightIsTruncated ==
    rz.pc = "done" =>
        LET floor == (RESIZE_WIDTH * rz.h) \div rz.w
        IN  /\ rz.out.w = RESIZE_WIDTH
            /\ rz.out.h \in {floor - 1, floor}
            /\ rz.out.h >= 0
            /\ (RESIZE_WIDTH * rz.h) % rz.w # 0 => rz.out.h = floor
            /\ rz.ok <=> rz.out.h >= 1

C6_Witness ==
    /\ rz.pc = "done"
    /\ rz.w = 97
    /\ rz.h = 97
    /\ rz.ok
    /\ rz.out.h = 799

\* C7: after two API invocations with the same file name, run one after
\* the other and both answered with 200, the table holds exactly one item
\* for that image_id, all of its fields are those of the second
\* invocation, and the object at the resized key is the second's output.
C7_SecondOverwritesFirst ==
    \A i \in Ids, j \in Ids :
        LET a == inv[i]
            b == inv[j]
        IN  /\ j = i + 1
            /\ a.pc = "past" /\ a.path = "api" /\ a.resp.statusCode = 200
            /\ b.pc = "done" /\ b.path = "api" /\ b.resp.statusCode = 200
            /\ a.file_name = b.file_name
            => /\ {x \in table : x.image_id = b.file_name}
                    = {Item(b.file_name, b.key, b.resized_key,
                            b.size_bytes, b.timestamp)}
               /\ b.resized_key \in DOMAIN store
               /\ store[b.resized_key].body = b.out
               /\ b.timestamp > a.timestamp

C7_Witness ==
    \E i \in Ids, j \in Ids :
        /\ j = i + 1
        /\ inv[i].pc = "past" /\ inv[i].path = "api"
        /\ inv[i].resp.statusCode = 200
        /\ inv[j].pc = "done" /\ inv[j].path = "api"
        /\ inv[j].resp.statusCode = 200
        /\ inv[j].event.filename.has
        /\ inv[i].file_name = inv[j].file_name
        /\ inv[i].size_bytes # inv[j].size_bytes

\* The payload has a non-empty list under 'Records' whose first element
\* contains an 's3' section.
IsStorageEvent(e) ==
    /\ e.shape = "dict"
    /\ e.Records.kind = "list"
    /\ e.Records.items # <<>>
    /\ e.Records.items[1].kind = "s3rec"

\* The test on line 127 cannot be evaluated: 'Records' is truthy but no
\* list, or its first element is no container.
TestRaises(e) ==
    /\ e.shape = "dict"
    /\ \/ e.Records.kind = "dict"
       \/ /\ e.Records.kind = "list"
          /\ e.Records.items # <<>>
          /\ e.Records.items[1].kind = "scalar"

Dispatched(l) == l.pc \notin {"idle", "dispatch", "past"}

\* C8 (as claimed): the storage-event path is taken iff the payload is a
\* storage event, every other payload takes the API path, and exactly one
\* of the two paths runs.
C8_DispatchRule ==
    \A i \in Ids :
        Dispatched(inv[i]) =>
            /\ inv[i].path \in {"s3", "api"}
            /\ inv[i].path = "s3" <=> IsStorageEvent(inv[i].event)

\* C8 (amended): the storage-event path is taken iff the payload is a
\* storage event; every other payload takes the API path, except those on
\* which the dispatch test itself raises, for which neither path runs and
\* the response is 500; never more than one path runs.
C8_DispatchRuleUnlessTestRaises ==
    \A i \in Ids :
        Dispatched(inv[i]) =>
            /\ inv[i].path \in {"s3", "api", "none"}
            /\ inv[i].path = "s3" <=> IsStorageEvent(inv[i].event)
            /\ inv[i].path = "none" <=> TestRaises(inv[i].event)
            /\ inv[i].path = "none" =>
                  /\ inv[i].pc = "done"
                  /\ inv[i].resp = Error500
                  /\ inv[i].log = <<>>
            /\ inv[i].path = "s3" =>
                  \A n \in 1..Len(inv[i].log) : inv[i].log[n].op # "put"
                      \/ UnderPrefix(inv[i].log[n].key, RESIZED_PREFIX)
            /\ inv[i].path = "api" =>
                  \A n \in 1..Len(inv[i].log) : inv[i].log[n].op # "get"

C8_Witness ==
    \E i \in Ids :
        /\ inv[i].pc = "done"
        /\ inv[i].path = "api"
        /\ inv[i].event.Records.kind = "list"
        /\ inv[i].event.Records.items # <<>>
        /\ inv[i].event.Records.items[1].kind = "nos3"

\* The invocation was triggered by the creation of an object under
\* RESIZED_PREFIX.
TriggeredByResized(l) ==
    /\ l.pc # "idle"
    /\ IsStorageEvent(l.event)
    /\ UnderPrefix(l.event.Records.items[1].key, RESIZED_PREFIX)

Quiescent ==
    /\ pending.q = EmptyBag
    /\ \A i \in Ids : ~Running(inv[i])

\* C9: with notifications on the whole bucket, an invocation triggered by
\* a resized-object key makes no store or table call, and after the
\* finitely many uploads and API calls the system comes to rest with no
\* notification queued and no invocation running.
C9_RecursionGuard ==
    /\ [](\A i \in 1..NumTrig : TriggeredByResized(inv[i]) => inv[i].log = <<>>)
    /\ <>[](pending.q = EmptyBag /\ \A i \in 1..NumTrig : ~Running(inv[i]))

C9_Witness ==
    /\ uploadsLeft = 0
    /\ Quiescent
    /\ \E i \in Ids :
          /\ TriggeredByResized(inv[i])
          /\ inv[i].pc = "done"
          /\ inv[i].resp = Ack200
    /\ \E x \in table : x.resized_key \in DOMAIN store

\* C10 (as claimed): every metadata item names in resized_key an object
\* present in the store, and its size_bytes is the byte length of the
\* object now stored at that key.
C10_SizeMatchesStoredObject ==
    \A x \in table :
        /\ x.resized_key \in DOMAIN store
        /\ x.size_bytes = ByteLen(store[x.resized_key].body)

\* C10 (amended): every metadata item names in resized_key an object
\* present in the store, and its size_bytes is the byte length of the
\* object that the invocation which wrote the item stored at that key;
\* another invocation may have replaced that object since.
C10_SizeMatchesWrittenObject ==
    \A x \in table :
        /\ x.resized_key \in DOMAIN store
        /\ \E i \in Ids :
              /\ inv[i].resized_key = x.resized_key
              /\ inv[i].file_name = x.image_id
              /\ inv[i].timestamp = x.timestamp
              /\ \E n \in 1..Len(inv[i].log) :
                    inv[i].log[n] = LogEntry("put", x.resized_key, TRUE)
              /\ x.size_bytes = ByteLen(inv[i].out)

C10_Witness ==
    \E x \in table :
        /\ x.resized_key \in DOMAIN store
        /\ x.size_bytes # ByteLen(store[x.resized_key].body)
        /\ \E i \in Ids : inv[i].pc = "done" /\ x.size_bytes = ByteLen(inv[i].out)

====
